---- MODULE Spec2Model ----
(***************************************************************************)
(* The per-call relay of src/api/call.js: one telephony (Twilio) media     *)
(* stream socket `ws`, the agent (Deepgram) sockets the session creates,   *)
(* the keepalive intervals it arms, and the handlers registered on them.   *)
(*                                                                         *)
(* Every handler of the source is one action.  The WebSocket objects are   *)
(* those of the `ws` package (version 8, the one @fastify/websocket hands  *)
(* to a `(ws, req)` handler): send() throws while CONNECTING, is dropped   *)
(* without a throw while CLOSING or CLOSED; close() moves OPEN to CLOSING, *)
(* aborts a CONNECTING handshake (error and close are then emitted on the  *)
(* next tick) and does nothing on CLOSING or CLOSED; a protocol error emits *)
(* 'error' once and stops the receiver.  An exception that leaves a handler *)
(* that has no try/catch is an uncaught exception: the process ends.       *)
(***************************************************************************)
EXTENDS Integers, Sequences, FiniteSets, TLC

VARIABLES
    streamSid,          \* let streamSid (line 80)
    customParameters,   \* let customParameters (line 81)
    deepgramWs,         \* let deepgramWs (line 82): index into conns, 0 is null
    keepAliveInterval,  \* let keepAliveInterval (line 83): index into timers, 0 is null
    conns,              \* every agent WebSocket created by openDeepgram, in creation order
    timers,             \* every interval created by setInterval, in creation order
    ws,                 \* the telephony WebSocket of the session
    nextTick,           \* agent sockets whose aborted handshake is still to be emitted
    crashed,            \* an exception escaped a handler
    stopOpen,           \* history: a `stop` event was handled while the agent link was open
    event,              \* history: the callback that ran last, and its input
    http                \* POST /outbound-call: the last request, its reply, the calls created

vars == <<streamSid, customParameters, deepgramWs, keepAliveInterval, conns,
          timers, ws, nextTick, crashed, stopOpen, event, http>>

\* ---------------------------------------------------------------- bounds
MaxConns == 2      \* agent sockets created in one session
MaxWsClose == 2    \* close() calls on the telephony socket
MaxRequests == 3   \* POST /outbound-call requests handled

\* ------------------------------------------------------------ JS values
NULL == "<null>"
UNDEFINED == "<undefined>"

\* A string is a sequence of characters; a JS value is a string or undefined.
Undef == [t |-> "undefined", v |-> <<>>]
Str(s) == [t |-> "string", v |-> s]

IsSpace(ch) == ch = " "

RECURSIVE TrimStart(_)
TrimStart(s) ==
    IF s # <<>> /\ IsSpace(Head(s)) THEN TrimStart(Tail(s)) ELSE s

RECURSIVE TrimEnd(_)
TrimEnd(s) ==
    IF s # <<>> /\ IsSpace(s[Len(s)]) THEN TrimEnd(SubSeq(s, 1, Len(s) - 1)) ELSE s

\* String.prototype.trim
Trim(s) == TrimEnd(TrimStart(s))

\* truthiness of a payload or a text
Truthy(x) == x # UNDEFINED /\ x # NULL /\ x # ""

DefaultPrompt == <<"You are a helpful assistant.">>

\* ------------------------------------------------- ws package: WebSocket
\* One WebSocket object.  closeCalls: close() calls made by the relay; recv:
\* the receiver still delivers inbound frames (it stops at the peer's close
\* frame, at a protocol error, which is also what emits 'error', and when the
\* socket is closed).
NewSocket(rs) == [readyState |-> rs, closeCalls |-> 0, recv |-> (rs = "OPEN")]

\* What goes over a socket, as the peer reads it back: the commands to the
\* agent (lines 107-132, 138-141, 146, 212-215) and the frame to the telephony
\* socket (lines 161-165).
Data(type, text, payload, sid) ==
    [type |-> type, text |-> text, payload |-> payload, streamSid |-> sid]
NoData == Data("", <<>>, UNDEFINED, UNDEFINED)
SettingsCommand(prompt) == Data("Settings", prompt, UNDEFINED, UNDEFINED)
UtteranceCommand(text) == Data("Utterance", text, UNDEFINED, UNDEFINED)
KeepAliveCommand == Data("KeepAlive", <<>>, UNDEFINED, UNDEFINED)
\* the payload read from the wrong place: msg.payload, which is undefined
AudioCommandNoPayload(payload) == Data("Audio", <<>>, UNDEFINED, UNDEFINED)
AudioCommand(payload) == Data("Audio", <<>>, payload, UNDEFINED)
\* the frame without its streamSid
MediaFrameNoSid(sid, payload) == Data("media", <<>>, payload, UNDEFINED)
MediaFrame(sid, payload) == Data("media", <<>>, payload, sid)

\* One call a handler makes on a resource it owns, in the order the handler
\* makes them: send(data) on a socket (ok: the socket was OPEN and took it),
\* close() on a socket, clearInterval on an interval, and the release of the
\* agent handle (deepgramWs = null).  Socket 0 is the telephony socket, socket
\* c > 0 the c-th agent socket.
Effect(op, on, data, ok) == [op |-> op, on |-> on, data |-> data, ok |-> ok]
TwilioSocket == 0

\* the program state a handler reads and writes, as one record; effects lists
\* the calls the running handler has made so far
Cur ==
    [streamSid |-> streamSid, customParameters |-> customParameters,
     deepgramWs |-> deepgramWs, keepAliveInterval |-> keepAliveInterval,
     conns |-> conns, timers |-> timers, ws |-> ws, nextTick |-> nextTick,
     crashed |-> crashed, effects |-> <<>>]

Set(s) ==
    /\ streamSid' = s.streamSid
    /\ customParameters' = s.customParameters
    /\ deepgramWs' = s.deepgramWs
    /\ keepAliveInterval' = s.keepAliveInterval
    /\ conns' = s.conns
    /\ timers' = s.timers
    /\ ws' = s.ws
    /\ nextTick' = s.nextTick
    /\ crashed' = s.crashed

\* WebSocket.prototype.close() on a socket record
SocketClose(sock) ==
    [sock EXCEPT !.closeCalls = @ + 1,
                 !.readyState = IF @ \in {"OPEN", "CONNECTING"} THEN "CLOSING" ELSE @]

\* deepgramWs.send(cmd): a TypeError when deepgramWs is null, an Error when the
\* socket is CONNECTING; either leaves the calling handler as an exception,
\* recorded in `crashed` until the caller's catch (if any) clears it.  On a
\* CLOSING or CLOSED socket the command is dropped without a throw.
DeepgramSend(s, cmd) ==
    LET c == s.deepgramWs IN
    IF c = 0 THEN [s EXCEPT !.crashed = TRUE]
    ELSE [s EXCEPT !.crashed = (s.conns[c].readyState = "CONNECTING"),
                   !.effects = Append(@, Effect("send", c, cmd, s.conns[c].readyState = "OPEN"))]

\* deepgramWs.close() (line 87)
DeepgramClose(s) ==
    LET c == s.deepgramWs IN
    [s EXCEPT !.conns[c] = SocketClose(@),
              !.nextTick = IF s.conns[c].readyState = "CONNECTING" THEN @ \cup {c} ELSE @,
              !.effects = Append(@, Effect("close", c, NoData, TRUE))]

\* ws.close() on the telephony socket (lines 174, 185)
TwilioClose(s) ==
    [s EXCEPT !.ws = SocketClose(@),
              !.effects = Append(@, Effect("close", TwilioSocket, NoData, TRUE))]

\* ws.send(frame) on the telephony socket (line 160); the server side of a
\* socket is never CONNECTING
TwilioSend(s, frame) ==
    [s EXCEPT !.effects = Append(@, Effect("send", TwilioSocket, frame, s.ws.readyState = "OPEN"))]

\* clearInterval(keepAliveInterval): cancels the interval the variable names;
\* clearInterval(null) does nothing
ClearInterval(s) ==
    LET k == s.keepAliveInterval IN
    IF k = 0 THEN s
    ELSE [s EXCEPT !.timers[k] = [armed |-> FALSE, clearCalls |-> @.clearCalls + 1],
                   !.effects = Append(@, Effect("clearInterval", k, NoData, TRUE))]

\* ------------------------------------------------------ session closures
\* closeDeepgram (lines 85-94)
closeDeepgram(s) ==
    LET s1 == IF s.deepgramWs # 0
              THEN [DeepgramClose(s) EXCEPT
                        !.deepgramWs = 0,
                        !.effects = Append(@, Effect("release", s.deepgramWs, NoData, TRUE))]
              ELSE s
    IN  IF s1.keepAliveInterval # 0
        THEN [ClearInterval(s1) EXCEPT !.keepAliveInterval = 0]
        ELSE s1

\* openDeepgram (lines 96-99): new WebSocket(...), still CONNECTING
openDeepgram(s) ==
    [s EXCEPT !.conns = Append(@, NewSocket("CONNECTING")),
              !.deepgramWs = Len(s.conns) + 1]

\* ------------------------------------------------------------- messages
\* A frame as a handler receives it: json is whether JSON.parse accepts it, tag
\* its `event` (telephony) or `type` (agent), body whether the object the tag
\* names (`start`, `media`, `audio`) is present, and the fields read from it.
NoParams == [present |-> FALSE, prompt |-> Undef, first_message |-> Undef]
Params(p, f) == [present |-> TRUE, prompt |-> p, first_message |-> f]

Msg(json, tag, body, sid, cp, payload) ==
    [json |-> json, tag |-> tag, body |-> body, streamSid |-> sid,
     customParameters |-> cp, payload |-> payload]

NoMsg == Msg(TRUE, "", FALSE, UNDEFINED, NoParams, UNDEFINED)
Malformed == Msg(FALSE, "", FALSE, UNDEFINED, NoParams, UNDEFINED)

StreamSids == {"MZ1", UNDEFINED}
Payloads == {"", "p"}
ParamChoices ==
    { NoParams,
      Params(Str(<<" ", "a">>), Str(<<"b", " ">>)),
      Params(Str(<<" ">>), Str(<<" ">>)) }

TwilioMessages ==
    {Malformed}
    \cup {Msg(TRUE, "start", TRUE, sid, cp, UNDEFINED) : sid \in StreamSids, cp \in ParamChoices}
    \cup {Msg(TRUE, "start", FALSE, UNDEFINED, NoParams, UNDEFINED)}
    \cup {Msg(TRUE, "media", TRUE, UNDEFINED, NoParams, p) : p \in Payloads}
    \cup {Msg(TRUE, "media", FALSE, UNDEFINED, NoParams, UNDEFINED)}
    \cup {Msg(TRUE, "stop", FALSE, UNDEFINED, NoParams, UNDEFINED)}
    \cup {Msg(TRUE, "mark", FALSE, UNDEFINED, NoParams, UNDEFINED)}

AgentMessages ==
    {Malformed}
    \cup {Msg(TRUE, "AgentAudio", TRUE, UNDEFINED, NoParams, p) : p \in Payloads}
    \cup {Msg(TRUE, "AgentAudio", FALSE, UNDEFINED, NoParams, UNDEFINED)}
    \cup {Msg(TRUE, t, FALSE, UNDEFINED, NoParams, UNDEFINED) :
            t \in {"Utterance", "AgentThinking", "Error", "Welcome"}}

\* ------------------------------------------------------------- handlers
\* the readyState test left out
LinkOpenAnyState(s) == s.deepgramWs # 0

\* deepgramWs && deepgramWs.readyState === WebSocket.OPEN (line 210)
LinkOpen(s) == s.deepgramWs # 0 /\ s.conns[s.deepgramWs].readyState = "OPEN"

\* a catch that also tears the session down
CatchAndTeardown(s) == closeDeepgram(TwilioClose([s EXCEPT !.crashed = FALSE]))

\* catch (err) { console.error(...) } (lines 178-180, 222-224)
Catch(s) == [s EXCEPT !.crashed = FALSE]

\* customParameters.prompt?.trim() || "You are a helpful assistant." (line 104)
UserPrompt(cp) ==
    IF cp.prompt.t = "string" /\ Trim(cp.prompt.v) # <<>>
    THEN Trim(cp.prompt.v)
    ELSE DefaultPrompt

\* typeof first_message === "string" && first_message.trim() (line 136)
HasFirstMessage(cp) ==
    cp.first_message.t = "string" /\ Trim(cp.first_message.v) # <<>>

\* setInterval(..., 20000) (lines 145-147)
SetInterval(s) ==
    [s EXCEPT !.timers = Append(@, [armed |-> TRUE, clearCalls |-> 0]),
              !.keepAliveInterval = Len(s.timers) + 1]

\* deepgramWs.on("open") (lines 101-148)
HandleDeepgramOpen(s) ==
    LET s1 == DeepgramSend(s, SettingsCommand(UserPrompt(s.customParameters)))
        s2 == IF HasFirstMessage(s.customParameters)
              THEN DeepgramSend(s1, UtteranceCommand(Trim(s.customParameters.first_message.v)))
              ELSE s1
    IN  IF s1.crashed THEN s1
        ELSE IF s2.crashed THEN s2
        ELSE SetInterval(s2)

\* the interval callback (line 146)
HandleKeepAlive(s) == DeepgramSend(s, KeepAliveCommand)

\* deepgramWs.on("error") (lines 183-187)
HandleDeepgramError(s) == closeDeepgram(TwilioClose(s))

\* deepgramWs.on("close") (lines 189-192)
HandleDeepgramClose(s) == ClearInterval(s)

\* the switch with a default branch that treats every tag it does not forward
\* or log as fatal
HandleDeepgramMessageDefaultFatal(s, m) ==
    IF ~m.json THEN Catch(s)
    ELSE IF m.tag = "AgentAudio"
    THEN IF m.body /\ Truthy(m.payload)
         THEN TwilioSend(s, MediaFrame(s.streamSid, m.payload))
         ELSE s
    ELSE IF m.tag \in {"Utterance", "AgentThinking"} THEN s
    ELSE HandleDeepgramError(s)

\* deepgramWs.on("message") (lines 150-181)
HandleDeepgramMessage(s, m) ==
    IF ~m.json THEN Catch(s)
    ELSE IF m.tag = "AgentAudio"
    THEN IF m.body /\ Truthy(m.payload)
         THEN TwilioSend(s, MediaFrame(s.streamSid, m.payload))
         ELSE s
    ELSE IF m.tag = "Error" THEN HandleDeepgramError(s)
    ELSE s

\* ws.on("error") (lines 195-198)
HandleWsError(s) == closeDeepgram(s)

\* ws.on("close") (lines 227-230)
HandleWsClose(s) == closeDeepgram(s)

\* the start branch (lines 204-208); msg.start.streamSid throws when msg.start
\* is absent, before anything is assigned
HandleStart(s, m) ==
    IF ~m.body THEN Catch(s)
    ELSE openDeepgram([s EXCEPT !.streamSid = m.streamSid,
                                !.customParameters =
                                    [prompt |-> m.customParameters.prompt,
                                     first_message |-> m.customParameters.first_message]])

\* the media branch (lines 209-217); msg.media.payload is read only past the
\* readyState test, and throws into the catch when msg.media is absent
HandleMedia(s, m) ==
    IF LinkOpen(s)
    THEN IF m.body THEN Catch(DeepgramSend(s, AudioCommand(m.payload))) ELSE Catch(s)
    ELSE s

\* ws.on("message") (lines 200-225)
HandleWsMessage(s, m) ==
    IF ~m.json THEN Catch(s)
    ELSE IF m.tag = "start" THEN HandleStart(s, m)
    ELSE IF m.tag = "media" THEN HandleMedia(s, m)
    ELSE IF m.tag = "stop" THEN closeDeepgram(s)
    ELSE s

\* -------------------------------------------------------------- actions
\* the callback that ran: h names the handler, c the agent socket or interval it
\* belongs to, msg its input, effects the calls it made
Ev(h, c, m) == [h |-> h, c |-> c, msg |-> m, effects |-> <<>>]

Conns == 1..Len(conns)
Timers == 1..Len(timers)

\* the logs and counters stay within the bounds
Bounded(s) ==
    /\ Len(s.conns) <= MaxConns
    /\ s.ws.closeCalls <= MaxWsClose

\* the event loop runs a callback: the process is alive and no process.nextTick
\* callback is pending (those run before any I/O or timer callback)
Idle == ~crashed /\ nextTick = {}

Step(s, e) ==
    /\ Bounded(s)
    /\ Set(s)
    /\ event' = [e EXCEPT !.effects = s.effects]
    /\ UNCHANGED http
    /\ stopOpen' = (stopOpen \/ (e.h = "ws.message" /\ e.msg.json /\ e.msg.tag = "stop"
                                 /\ deepgramWs # 0 /\ conns[deepgramWs].readyState = "OPEN"))

\* the receiver of a socket delivers frames while the socket is OPEN, or
\* CLOSING by a local close() whose closing handshake has not completed
Receiving(sock) == sock.readyState \in {"OPEN", "CLOSING"} /\ sock.recv

\* a telephony frame arrives: ws.on("message")
WsOnMessage ==
    /\ Idle
    /\ Receiving(ws)
    /\ \E m \in TwilioMessages :
          Step(HandleWsMessage(Cur, m), Ev("ws.message", 0, m))

\* the telephony peer starts the closing handshake: the socket turns CLOSING
\* and delivers no more frames; 'close' follows when the TCP stream ends
WsPeerClosing ==
    /\ Idle
    /\ ws.readyState = "OPEN"
    /\ Step([Cur EXCEPT !.ws.readyState = "CLOSING", !.ws.recv = FALSE],
            Ev("ws.closing", 0, NoMsg))

\* a protocol error on the telephony socket: ws.on("error")
WsOnError ==
    /\ Idle
    /\ Receiving(ws)
    /\ Step(HandleWsError([Cur EXCEPT !.ws.readyState = "CLOSING", !.ws.recv = FALSE]),
            Ev("ws.error", 0, NoMsg))

\* the telephony socket is closed: ws.on("close")
WsOnClose ==
    /\ Idle
    /\ ws.readyState \in {"OPEN", "CLOSING"}
    /\ Step(HandleWsClose([Cur EXCEPT !.ws.readyState = "CLOSED", !.ws.recv = FALSE]),
            Ev("ws.close", 0, NoMsg))

\* the agent handshake completes: deepgramWs.on("open") of socket c
DeepgramOnOpen(c) ==
    /\ Idle
    /\ conns[c].readyState = "CONNECTING"
    /\ Step(HandleDeepgramOpen([Cur EXCEPT !.conns[c].readyState = "OPEN",
                                           !.conns[c].recv = TRUE]),
            Ev("deepgramWs.open", c, NoMsg))

\* an agent frame arrives on socket c: deepgramWs.on("message")
DeepgramOnMessage(c) ==
    /\ Idle
    /\ Receiving(conns[c])
    /\ \E m \in AgentMessages :
          Step(HandleDeepgramMessage(Cur, m), Ev("deepgramWs.message", c, m))

\* the agent starts the closing handshake on socket c
DeepgramPeerClosing(c) ==
    /\ Idle
    /\ conns[c].readyState = "OPEN"
    /\ Step([Cur EXCEPT !.conns[c].readyState = "CLOSING", !.conns[c].recv = FALSE],
            Ev("deepgramWs.closing", c, NoMsg))

\* a protocol error on agent socket c: deepgramWs.on("error")
DeepgramOnError(c) ==
    /\ Idle
    /\ Receiving(conns[c])
    /\ Step(HandleDeepgramError([Cur EXCEPT !.conns[c].readyState = "CLOSING",
                                            !.conns[c].recv = FALSE]),
            Ev("deepgramWs.error", c, NoMsg))

\* agent socket c is closed: deepgramWs.on("close")
DeepgramOnClose(c) ==
    /\ Idle
    /\ conns[c].readyState \in {"OPEN", "CLOSING"}
    /\ Step(HandleDeepgramClose([Cur EXCEPT !.conns[c].readyState = "CLOSED",
                                            !.conns[c].recv = FALSE]),
            Ev("deepgramWs.close", c, NoMsg))

\* emitErrorAndClose of the ws package: 'error' with the socket CLOSING, then
\* 'close' with the socket CLOSED, in one turn
EmitErrorAndClose(s, c) ==
    LET s1 == HandleDeepgramError([s EXCEPT !.conns[c].readyState = "CLOSING"])
    IN  HandleDeepgramClose([s1 EXCEPT !.conns[c].readyState = "CLOSED"])

\* the handshake of agent socket c fails: 'error' then 'close'
DeepgramHandshakeFail(c) ==
    /\ Idle
    /\ conns[c].readyState = "CONNECTING"
    /\ Step(EmitErrorAndClose(Cur, c), Ev("deepgramWs.fail", c, NoMsg))

\* close() was called on agent socket c while CONNECTING: the aborted handshake
\* is emitted on the next tick, 'error' then 'close'
DeepgramAbortEmit(c) ==
    /\ ~crashed
    /\ c \in nextTick
    /\ Step(EmitErrorAndClose([Cur EXCEPT !.nextTick = @ \ {c}], c),
            Ev("deepgramWs.abort", c, NoMsg))

\* interval t fires: the callback of line 146
KeepAliveTick(t) ==
    /\ Idle
    /\ timers[t].armed
    /\ Step(HandleKeepAlive(Cur), Ev("keepAlive", t, NoMsg))

\* ------------------------------------------------- POST /outbound-call
\* request.body: absent when the request carries no payload (Fastify runs the
\* handler without parsing anything), otherwise an object whose fields are
\* strings or undefined
NoBody == [present |-> FALSE, number |-> Undef, prompt |-> Undef, first_message |-> Undef]
Body(number, prompt, first_message) ==
    [present |-> TRUE, number |-> number, prompt |-> prompt,
     first_message |-> first_message]

\* encodeURIComponent, on the characters the requests use: letters and digits
\* stay, " ", "&" and "+" are percent-escaped
RECURSIVE encodeURIComponent(_)
encodeURIComponent(str) ==
    IF str = <<>> THEN <<>>
    ELSE (IF Head(str) = " " THEN <<"%", "2", "0">>
          ELSE IF Head(str) = "&" THEN <<"%", "2", "6">>
          ELSE IF Head(str) = "+" THEN <<"%", "2", "B">>
          ELSE <<Head(str)>>) \o encodeURIComponent(Tail(str))

\* x || "" (lines 48, 49)
OrEmpty(x) == IF x.t = "string" THEN x.v ELSE <<>>

\* the arguments of twilioClient.calls.create (lines 44-51): `to`, and the two
\* query parameters of `url`
CallsCreate(body) ==
    [to |-> body.number.v,
     prompt |-> encodeURIComponent(OrEmpty(body.prompt)),
     first_message |-> encodeURIComponent(OrEmpty(body.first_message))]

\* reply.code(code).send(...)
Reply(h, code) == [h EXCEPT !.status = code, !.replies = @ + 1]

\* the handler (lines 36-57).  Destructuring an absent body throws a TypeError
\* out of the async handler, which Fastify answers with 500; `created` is
\* whether calls.create resolved.
HandleOutboundCall(h, body, created) ==
    IF ~body.present THEN Reply(h, 500)
    ELSE IF ~(body.number.t = "string" /\ body.number.v # <<>>) THEN Reply(h, 400)
    ELSE Reply([h EXCEPT !.calls = Append(@, CallsCreate(body))],
               IF created THEN 200 ELSE 500)

Numbers == {Undef, Str(<<>>), Str(<<"+", "1">>)}
Prompts == {Undef, Str(<<"a", " ">>)}
FirstMessages == {Undef, Str(<<"&">>)}
RequestBodies ==
    {NoBody} \cup {Body(n, p, f) : n \in Numbers, p \in Prompts, f \in FirstMessages}

session == <<streamSid, customParameters, deepgramWs, keepAliveInterval, conns,
             timers, ws, nextTick, crashed, stopOpen, event>>

\* one POST /outbound-call request is handled
PostOutboundCall ==
    /\ http.replies < MaxRequests
    /\ \E body \in RequestBodies, created \in BOOLEAN :
          http' = [HandleOutboundCall(http, body, created) EXCEPT !.body = body]
    /\ UNCHANGED session

Init ==
    /\ streamSid = NULL
    /\ customParameters = [prompt |-> Undef, first_message |-> Undef]
    /\ deepgramWs = 0
    /\ keepAliveInterval = 0
    /\ conns = <<>>
    /\ timers = <<>>
    /\ ws = NewSocket("OPEN")
    /\ nextTick = {}
    /\ crashed = FALSE
    /\ stopOpen = FALSE
    /\ event = Ev("connection", 0, NoMsg)
    /\ http = [body |-> NoBody, status |-> 0, replies |-> 0, calls |-> <<>>]

Next ==
    \/ WsOnMessage
    \/ WsPeerClosing
    \/ WsOnError
    \/ WsOnClose
    \/ \E c \in Conns : DeepgramOnOpen(c)
    \/ \E c \in Conns : DeepgramOnMessage(c)
    \/ \E c \in Conns : DeepgramPeerClosing(c)
    \/ \E c \in Conns : DeepgramOnError(c)
    \/ \E c \in Conns : DeepgramOnClose(c)
    \/ \E c \in Conns : DeepgramHandshakeFail(c)
    \/ \E c \in Conns : DeepgramAbortEmit(c)
    \/ \E t \in Timers : KeepAliveTick(t)

Spec == Init /\ [][Next]_vars

\* the HTTP endpoint alone: it shares no state with a media-stream session
NextHttp == PostOutboundCall

SpecHttp == Init /\ [][NextHttp]_vars

\* ------------------------------------------------------------ properties
\* the state of the agent link the session holds
LinkState == IF deepgramWs = 0 THEN "absent" ELSE conns[deepgramWs].readyState

\* the program state, without the history variables
progVars == <<streamSid, customParameters, deepgramWs, keepAliveInterval, conns,
              timers, ws, nextTick, crashed>>

\* the step is the handling of a telephony frame with tag `tag`
WsHandled(tag) == event'.h = "ws.message" /\ event'.msg.json /\ event'.msg.tag = tag
\* the step is the handling of an agent frame with tag `tag`
DeepgramHandled(tag) == event'.h = "deepgramWs.message" /\ event'.msg.json /\ event'.msg.tag = tag

\* the calls of the last callback that satisfy P
EffectsOf(e, P(_)) == {i \in 1..Len(e.effects) : P(e.effects[i])}
IsAgentSend(x) == x.op = "send" /\ x.on # TwilioSocket
IsSend(x) == x.op = "send"
IsAgentClose(x) == x.op = "close" /\ x.on # TwilioSocket
IsClearInterval(x) == x.op = "clearInterval"
IsSettings(x) == IsAgentSend(x) /\ x.data.type = "Settings"
IsUtterance(x) == IsAgentSend(x) /\ x.data.type = "Utterance"

\* C1: handling a telephony `media` event sends an Audio command to the agent
\* link only if the link exists and is open; when the link is absent,
\* connecting, closing or closed the handler calls send() on nothing, changes
\* no state (so nothing is kept for later delivery), and in no case does an
\* exception leave the handler.
C1_MediaOnlyWhenOpen ==
    [][WsHandled("media") =>
          /\ ~crashed'
          /\ \A i \in EffectsOf(event', IsSend) :
                /\ LinkState = "OPEN"
                /\ event'.effects[i].on = deepgramWs
                /\ event'.effects[i].ok
                /\ event'.effects[i].data.type = "Audio"
          /\ LinkState # "OPEN" => (event'.effects = <<>> /\ UNCHANGED progVars)]_vars

\* a media event was handled while the agent socket was still connecting
C1_Witness ==
    /\ event.h = "ws.message" /\ event.msg.json /\ event.msg.tag = "media"
    /\ event.msg.body
    /\ LinkState = "CONNECTING"
    /\ event.effects = <<>>

\* C2: whatever teardown triggers occur, close() is called at most once on
\* each agent socket and on the telephony socket and each keepalive interval is
\* cleared at most once; and once a teardown trigger has been handled, close()
\* has been called exactly once on every agent socket of the session and every
\* interval armed has been cleared exactly once.
TeardownTriggers ==
    {"ws.close", "ws.error", "deepgramWs.error", "deepgramWs.fail", "deepgramWs.abort"}
TeardownHandled ==
    \/ event.h \in TeardownTriggers
    \/ event.h = "ws.message" /\ event.msg.json /\ event.msg.tag = "stop"
    \/ event.h = "deepgramWs.message" /\ event.msg.json /\ event.msg.tag = "Error"
C2_TeardownExactlyOnce ==
    /\ ws.closeCalls <= 1
    /\ \A c \in Conns : conns[c].closeCalls <= 1
    /\ \A t \in Timers : timers[t].clearCalls <= 1
    /\ TeardownHandled =>
          /\ \A c \in Conns : conns[c].closeCalls = 1
          /\ \A t \in Timers : timers[t].clearCalls = 1

\* C3: a keepalive interval fires only while the agent link is open (so never
\* on an absent, connecting, closing or closed link, and never after the link
\* was closed).
C3_KeepAliveOnlyWhileOpen ==
    [][event'.h = "keepAlive" => LinkState = "OPEN"]_vars

\* C4: a telephony `media` event with payload P handled while the agent link
\* is open makes exactly one call, a send of the Audio command with payload P
\* on the link, which the link accepts; being made inside the handling of the
\* event, the commands leave in the order the events arrive.
C4_MediaForwarded ==
    [][(WsHandled("media") /\ event'.msg.body /\ LinkState = "OPEN") =>
          event'.effects =
              <<Effect("send", deepgramWs,
                       Data("Audio", <<>>, event'.msg.payload, UNDEFINED), TRUE)>>]_vars

\* payload "p" was forwarded to the open link
C4_Witness ==
    /\ event.h = "ws.message" /\ event.msg.json /\ event.msg.tag = "media"
    /\ event.msg.payload = "p"
    /\ Len(event.effects) = 1
    /\ event.effects[1].op = "send" /\ event.effects[1].ok
    /\ event.effects[1].data.payload = "p"

StreamSidKnown == streamSid # NULL /\ streamSid # UNDEFINED

\* C5 as stated: every agent audio-output event with payload Q handled once the
\* streamSid is known puts exactly one frame {media, streamSid, Q} on the
\* telephony socket.
C5_AgentAudioAlwaysForwarded ==
    [][(DeepgramHandled("AgentAudio") /\ event'.msg.body /\ StreamSidKnown) =>
          event'.effects =
              <<Effect("send", TwilioSocket,
                       Data("media", <<>>, event'.msg.payload, streamSid), TRUE)>>]_vars

\* C5: every agent audio-output event with a non-empty payload Q handled once
\* the streamSid is known and while the telephony socket is open puts exactly
\* one frame {media, streamSid, Q} on the telephony socket.
C5_AgentAudioForwarded ==
    [][(/\ DeepgramHandled("AgentAudio") /\ event'.msg.body /\ StreamSidKnown
        /\ event'.msg.payload # ""
        /\ ws.readyState = "OPEN") =>
          event'.effects =
              <<Effect("send", TwilioSocket,
                       Data("media", <<>>, event'.msg.payload, streamSid), TRUE)>>]_vars

\* agent audio "p" was put on the open telephony socket under streamSid MZ1
C5_Witness ==
    /\ event.h = "deepgramWs.message" /\ event.msg.json /\ event.msg.tag = "AgentAudio"
    /\ event.msg.payload = "p"
    /\ streamSid = "MZ1"
    /\ event.effects = <<Effect("send", TwilioSocket, Data("media", <<>>, "p", "MZ1"), TRUE)>>

\* C6: a frame that JSON.parse rejects, on either socket, makes no call and
\* changes no state: both sockets, the interval and the agent handle are as
\* they were, so what follows is handled as if the frame had not arrived.
C6_MalformedDropped ==
    [][(event'.h \in {"ws.message", "deepgramWs.message"} /\ ~event'.msg.json) =>
          (event'.effects = <<>> /\ UNCHANGED progVars /\ UNCHANGED stopOpen)]_vars

\* a malformed agent frame was handled with the link open, the interval armed
\* and the telephony socket open
C6_Witness ==
    /\ event.h = "deepgramWs.message" /\ ~event.msg.json
    /\ LinkState = "OPEN"
    /\ keepAliveInterval # 0 /\ timers[keepAliveInterval].armed
    /\ ws.readyState = "OPEN"

\* C7: a `stop` handled while the link is open calls close() on the agent
\* socket exactly once and clears the interval exactly once, and from then on
\* no callback sends a command to an agent socket.
C7_StopEndsAgentTraffic ==
    [][/\ (WsHandled("stop") /\ LinkState = "OPEN") =>
             /\ Cardinality(EffectsOf(event', IsAgentClose)) = 1
             /\ Cardinality(EffectsOf(event', IsClearInterval)) = 1
       /\ stopOpen => EffectsOf(event', IsAgentSend) = {}]_vars

\* C8: the open handler of an agent socket sends, first and on that socket,
\* one Settings command whose prompt is the caller's prompt (compared with its
\* surrounding blanks removed) or, if that is absent or blank, the default
\* prompt; no other callback sends a Settings command.
ClaimedPrompt ==
    IF customParameters.prompt.t = "string" /\ Trim(customParameters.prompt.v) # <<>>
    THEN Trim(customParameters.prompt.v)
    ELSE <<"You are a helpful assistant.">>
C8_SettingsFirstAndOnce ==
    [][IF event'.h = "deepgramWs.open"
       THEN /\ Len(event'.effects) >= 1
            /\ event'.effects[1] =
                   Effect("send", event'.c, Data("Settings", ClaimedPrompt, UNDEFINED, UNDEFINED), TRUE)
            /\ EffectsOf(event', IsSettings) = {1}
       ELSE EffectsOf(event', IsSettings) = {}]_vars

\* C9: the open handler of an agent socket sends one Utterance command with
\* the first_message text (compared with its surrounding blanks removed) on
\* that socket right after the Settings command if the start event gave a
\* non-blank first_message, and none otherwise; no other callback sends one.
ClaimedFirstMessage ==
    customParameters.first_message.t = "string" /\ Trim(customParameters.first_message.v) # <<>>
C9_UtteranceAfterSettings ==
    [][IF event'.h = "deepgramWs.open" /\ ClaimedFirstMessage
       THEN /\ Len(event'.effects) >= 2
            /\ IsSettings(event'.effects[1])
            /\ event'.effects[2] =
                   Effect("send", event'.c,
                          Data("Utterance", Trim(customParameters.first_message.v), UNDEFINED, UNDEFINED),
                          TRUE)
            /\ EffectsOf(event', IsUtterance) = {2}
       ELSE EffectsOf(event', IsUtterance) = {}]_vars

\* C10: a session creates at most one agent socket and arms at most one
\* keepalive interval, whatever telephony events arrive.
C10_OneAgentConnection ==
    /\ Len(conns) <= 1
    /\ Len(timers) <= 1

\* C11: when the agent socket the session holds is closed by the agent, with
\* no close() by the relay and no fatal agent error before it, the handler of
\* its 'close' tears the session down: close() is called on the telephony
\* socket, the keepalive interval is cancelled and the agent handle released.
C11_AgentCloseTearsDown ==
    [][(/\ event'.h = "deepgramWs.close"
        /\ event'.c = deepgramWs
        /\ conns[deepgramWs].closeCalls = 0
        /\ ws.closeCalls = 0) =>
          /\ ws'.closeCalls >= 1
          /\ \A t \in 1..Len(timers') : ~timers'[t].armed
          /\ deepgramWs' = 0]_vars

\* C12: right after an agent Error message or an agent socket error is
\* handled, close() has been called on the telephony socket, the agent socket
\* it came from is no longer open or connecting and no interval is armed; and
\* once that has happened no new agent socket is created.
FatalAgentError ==
    \/ event'.h \in {"deepgramWs.error", "deepgramWs.fail", "deepgramWs.abort"}
    \/ DeepgramHandled("Error")
C12_AgentErrorIsFatal ==
    [][/\ FatalAgentError =>
             /\ ws'.closeCalls >= 1
             /\ conns'[event'.c].readyState \in {"CLOSING", "CLOSED"}
             /\ \A t \in 1..Len(timers') : ~timers'[t].armed
       /\ ws.closeCalls >= 1 => Len(conns') = Len(conns)]_vars

\* C13: right after a telephony `stop`, 'close' or 'error' has been handled,
\* in whatever state it arrived, no agent socket of the session is open or
\* connecting and no keepalive interval is armed.
TelephonyExit ==
    \/ event.h \in {"ws.close", "ws.error"}
    \/ event.h = "ws.message" /\ event.msg.json /\ event.msg.tag = "stop"
C13_TelephonyExitReleasesAgent ==
    TelephonyExit =>
        /\ \A c \in Conns : conns[c].readyState \in {"CLOSING", "CLOSED"}
        /\ \A t \in Timers : ~timers[t].armed

\* C15: once teardown has closed a resource of the session (close() was called
\* on an agent socket or on the telephony socket), no later callback creates
\* an agent socket, arms an interval or sends a command to an agent socket.
TornDown == ws.closeCalls >= 1 \/ \E c \in Conns : conns[c].closeCalls >= 1
C15_ClosedIsTerminal ==
    [][TornDown =>
          /\ Len(conns') = Len(conns)
          /\ Len(timers') = Len(timers)
          /\ EffectsOf(event', IsAgentSend) = {}]_vars

\* C16: every frame the relay sends to the telephony socket carries a known
\* streamSid, so an agent audio message handled while the streamSid is not
\* known produces no send on the telephony socket.
IsTwilioSend(x) == x.op = "send" /\ x.on = TwilioSocket
C16_FramesCarryKnownStreamSid ==
    \A i \in EffectsOf(event, IsTwilioSend) :
        /\ event.effects[i].data.streamSid \notin {NULL, UNDEFINED}
        /\ event.effects[i].data.streamSid = streamSid

\* C17: an agent message with an informational or unrecognised tag makes the
\* handler call nothing (no send, no close, no clearInterval) and leaves the
\* whole session state as it was.
InformationalTags == {"Utterance", "AgentThinking", "Welcome"}
C17_InformationalIgnored ==
    [][(\E tag \in InformationalTags : DeepgramHandled(tag)) =>
          /\ event'.effects = <<>>
          /\ UNCHANGED progVars]_vars

\* an unrecognised tag was handled on a live session: both sockets open, the
\* interval armed, and they still are
C17_Witness ==
    /\ event.h = "deepgramWs.message" /\ event.msg.json /\ event.msg.tag = "Welcome"
    /\ event.c = deepgramWs
    /\ LinkState = "OPEN"
    /\ ws.readyState = "OPEN" /\ ws.closeCalls = 0
    /\ keepAliveInterval # 0 /\ timers[keepAliveInterval].armed
    /\ event.effects = <<>>

\* C18: streamSid and customParameters are set by the first `start` event that
\* is handled and no later step changes them.
C18_StartParametersSetOnce ==
    [][Len(conns) >= 1 =>
          /\ streamSid' = streamSid
          /\ customParameters' = customParameters]_vars

\* C19: no interval is armed while the agent handle is null, and inside one
\* teardown every clearInterval comes before the release of the handle.
C19_TimerCancelledBeforeRelease ==
    /\ deepgramWs = 0 => \A t \in Timers : ~timers[t].armed
    /\ \A i, j \in 1..Len(event.effects) :
          (event.effects[i].op = "release" /\ event.effects[j].op = "clearInterval")
              => j < i

\* C20: an agent audio message handled after the telephony socket has left
\* OPEN, or after the relay called close() on it, makes no send() call on the
\* telephony socket.
C20_NoSendAfterTelephonyClose ==
    [][(DeepgramHandled("AgentAudio") /\ (ws.readyState # "OPEN" \/ ws.closeCalls >= 1)) =>
          EffectsOf(event', IsTwilioSend) = {}]_vars

\* C14: a POST /outbound-call whose body is absent or has no number is answered
\* with 400 and creates no call, and a call is created only for a request that
\* has a number.
NumberPresent(body) == body.present /\ body.number.t = "string" /\ body.number.v # <<>>
C14_MissingNumberIs400 ==
    [][http'.replies = http.replies + 1 =>
          /\ ~NumberPresent(http'.body) => (http'.status = 400 /\ http'.calls = http.calls)
          /\ http'.calls # http.calls => NumberPresent(http'.body)]_vars

====
